---- MODULE Spec2Model ----
(***************************************************************************)
(* The client-side real-time session manager of src/lib/websocket.ts       *)
(* (class WebSocketManager) and the hooks built on it: useRealtime and      *)
(* the presence/typing hook useUserPresence.                               *)
(*                                                                         *)
(* Everything runs on one JavaScript event loop, so every handler (a       *)
(* method call of the application, a WebSocket event handler, a timer      *)
(* callback) is one atomic action.  The sockets the session has created    *)
(* are this.ws and a bag of sockets this.ws has left while they can still  *)
(* run a handler; a socket nobody points at is dropped from the bag once   *)
(* its close event has fired, because it can run no handler any more.      *)
(***************************************************************************)
EXTENDS Integers, Sequences, FiniteSets, Bags, TLC

\* ------------------------------------------------------------------ bounds
MaxStale == 1       \* sockets alive that this.ws no longer points at
MaxOrphans == 1     \* pending reconnect timers whose handle was overwritten
TicksPerSecond == 4 \* the grain of the clock of the typing sweep
Horizon == 20       \* the clock stops after this many ticks

\* ------------------------------------------------------- program constants
DefaultReconnectAttempts == 5
DefaultReconnectInterval == 1000
SweepPeriodMs == 1000
StaleMs == 3000

Rooms == {"r1", "r2"}
Users == {"u1", "u2"}
\* event names: one the server sends, the local one, the heartbeat reply
Events == {"thread:new", "connection:failed", "pong"}
\* listeners, named by what they do when called (see EmitLoop)
Callbacks == {"ok", "throws", "adds", "once", "late"}
\* inbound frames: text that is no JSON, and envelopes
RawFrames ==
  { [json |-> FALSE] }
  \cup { [json |-> TRUE, type |-> e, data |-> d] : e \in Events, d \in {"d1", "d2"} }
Now == "now"                    \* `new Date().toISOString()` at the time of a send
Undefined == "undefined"        \* the JavaScript value undefined

\* configurations the constructor can be given: an optional field is a key
\* that may be missing from the record
AttemptInputs == {0, 1, 2}
IntervalInputs == {500}
Configs ==
  { [urlOk |-> u] : u \in BOOLEAN }
  \cup { [urlOk |-> TRUE, reconnectAttempts |-> a] : a \in AttemptInputs }
  \cup { [urlOk |-> TRUE, reconnectInterval |-> i] : i \in IntervalInputs }

\* messages the application hands to send(): `Omit<WebSocketMessage,"timestamp">`
\* is a compile-time type only, so a timestamp key can be present at run time
Messages ==
  { [type |-> "x", data |-> d] : d \in {"d1", Undefined} }
  \cup { [type |-> "x", data |-> "d1", roomId |-> r] : r \in {"r1", Undefined} }
  \cup { [type |-> "x", data |-> "d1", timestamp |-> "userTs"] }
  \cup { [type |-> "x", data |-> "d1", roomId |-> "r1", timestamp |-> "userTs"] }

VARIABLES
  config,               \* this.config
  maxReconnectAttempts, \* this.maxReconnectAttempts
  reconnectInterval,    \* this.reconnectInterval
  ws,                   \* this.ws: the socket it points at, or Null
  stale,                \* the bag of sockets still alive that this.ws has left
  isConnecting,         \* this.isConnecting
  connectionPromise,    \* this.connectionPromise: "null", "link" (the promise
                        \* of the socket marked cp) or "ctor"
  reconnectAttempts,    \* this.reconnectAttempts
  reconnectTimer,       \* this.reconnectTimer: "null", "pending", "done"
  orphanTimers,         \* pending reconnect timers no handle points at
  pingTimer,            \* this.pingTimer: "null", "active"
  orphanPing,           \* some ping interval runs that no handle points at
  rooms,                \* this.rooms, in insertion order
  eventListeners,       \* this.eventListeners: event -> its Set, in insertion
                        \* order; its domain is the keys of the Map
  lastOp,               \* the handler that ran last, with what it returned
  out,                  \* the frames the last handler wrote
  invoked,              \* the listener calls the last handler made
  torn,                 \* history: disconnect() has been called on this object
  failedRun,            \* history: the sockets that closed without opening
                        \* since a socket last opened, whether an open socket
                        \* closed before them, the connection:failed emitted
  now,                  \* the clock of the presence hook, in ticks
  nextSweep,            \* when the sweep interval of the hook fires next
  onlineUsers,          \* useUserPresence: the Presence Set
  typingUsers,          \* useUserPresence: the Typing Map, user -> tick
  hooks                 \* useRealtime: the state, the wsManagerRef and the
                        \* position in connect() of every hook instance

\* the transport session: connection state, timers and Room Set
linkVars == <<config, maxReconnectAttempts, reconnectInterval, ws, stale,
              isConnecting, connectionPromise, reconnectAttempts,
              reconnectTimer, orphanTimers, pingTimer, orphanPing>>
sessionVars == <<linkVars, rooms, eventListeners>>
obsVars == <<lastOp, out, invoked>>
presenceVars == <<now, nextSweep, onlineUsers, typingUsers>>
hookVars == <<presenceVars, hooks>>
histVars == <<torn, failedRun>>
vars == <<sessionVars, obsVars, histVars, hookVars>>

\* ------------------------------------------------------------- helpers
Range(s) == { s[i] : i \in 1..Len(s) }

RECURSIVE Pow2(_)
Pow2(n) == IF n = 0 THEN 1 ELSE 2 * Pow2(n - 1)

\* A socket is [st, timeout, promise, cp, opened, closeCalled, waiters]: st is its
\* readyState ("erred" and "closed" are both CLOSED: the error event has fired
\* and the close event is due, or the close event has fired too), timeout says
\* whether the 10 s timer of its connect() is armed, promise is the state of
\* the promise that connect() made, cp says whether this.connectionPromise is
\* that promise, opened whether its handshake has completed, closeCalled
\* whether disconnect() has called close() on it, waiters the hook instances
\* whose connect() awaits the promise.
Null == [st |-> "null", timeout |-> FALSE, promise |-> "none", cp |-> FALSE,
         opened |-> FALSE, closeCalled |-> FALSE, waiters |-> {}]
NewSocket == [st |-> "connecting", timeout |-> TRUE, promise |-> "pending",
              cp |-> TRUE, opened |-> FALSE, closeCalled |-> FALSE,
              waiters |-> {}]

\* `this.ws && this.ws.readyState === WebSocket.OPEN`
WsOpen(w) == w.st = "open"

\* the sockets that can still run a handler, each with whether this.ws points
\* at it
Sockets ==
  { [cur |-> TRUE, rec |-> ws] : x \in IF ws.st \in {"null", "closed"} THEN {} ELSE {1} }
  \cup { [cur |-> FALSE, rec |-> r] : r \in BagToSet(stale) }

One(r) == SetToBag({r})

\* the sockets after socket t has become record r (Null: it is dropped)
WsAfter(t, r) == IF t.cur THEN r ELSE ws
StaleAfter(t, r) ==
  IF t.cur THEN stale
  ELSE IF r = Null THEN stale (-) One(t.rec)
  ELSE (stale (-) One(t.rec)) (+) One(r)

\* this.connectionPromise is overwritten: no socket's promise is it any more
Unmark(r) == [r EXCEPT !.cp = FALSE]
UnmarkBag(b) ==
  LET marked == { r \in BagToSet(b) : r.cp }
  IN IF marked = {} THEN b
     ELSE LET m == CHOOSE r \in marked : TRUE
          IN (b (-) One(m)) (+) One(Unmark(m))

\* An error event and the close event that follows it are fired by the same
\* task: nothing but the close handler runs after the error handler.
NoEventInProgress == \A t \in Sockets : t.rec.st # "erred"

\* what is recorded of the handler that ran last: its name, the socket whose
\* handler it is ("ws", "stale" or "none"), the promise connect() returned
\* ("caught" for an onmessage whose JSON.parse threw),
\* the delay of the reconnect timer it set, the event it emitted
Op(name, sock, ret, delay, emitted) ==
  [op |-> name, sock |-> sock, ret |-> ret, delay |-> delay, emitted |-> emitted]
Plain(name) == Op(name, "none", "none", 0, "none")
Which(t) == IF t.cur THEN "ws" ELSE "stale"

\* the registry, a Map from event names to Sets of callbacks, is a function
\* whose domain is the keys of the Map; NoListeners is the empty Map
NoListeners == [e \in {} |-> << >>]

\* ------------------------------------------------------------- constructor
Constructor(cfg) ==
  /\ config = cfg
  /\ maxReconnectAttempts =
       IF "reconnectAttempts" \in DOMAIN cfg /\ cfg.reconnectAttempts # 0
       THEN cfg.reconnectAttempts ELSE DefaultReconnectAttempts
  /\ reconnectInterval =
       IF "reconnectInterval" \in DOMAIN cfg /\ cfg.reconnectInterval # 0
       THEN cfg.reconnectInterval ELSE DefaultReconnectInterval
  /\ ws = Null
  /\ stale = EmptyBag
  /\ isConnecting = FALSE
  /\ connectionPromise = "null"
  /\ reconnectAttempts = 0
  /\ reconnectTimer = "null"
  /\ orphanTimers = 0
  /\ pingTimer = "null"
  /\ orphanPing = FALSE
  /\ rooms = <<>>
  /\ eventListeners = NoListeners

\* -------------------------------------------------------------- dispatch
\* Set.add keeps the position of an element that is already there
SetAdd(s, x) == IF x \in Range(s) THEN s ELSE Append(s, x)
SetDelete(s, x) == SelectSeq(s, LAMBDA y : y # x)

\* `this.eventListeners.get(e)`, with no callbacks when the Map has no key e
ListenersOf(reg, e) == IF e \in DOMAIN reg THEN reg[e] ELSE << >>
\* the Map reg with the Set s under e, and without the key e
MapSet(reg, e, s) == [x \in DOMAIN reg \cup {e} |-> IF x = e THEN s ELSE reg[x]]
MapDelete(reg, e) == [x \in DOMAIN reg \ {e} |-> reg[x]]

\* on(event, callback) (lines 198-203), as a change of the registry
Register(reg, e, cb) == MapSet(reg, e, SetAdd(ListenersOf(reg, e), cb))
\* (a deletion that takes out the oldest registration instead, for comparison)
UnregisterFirst(reg, e, cb) ==
  IF e \notin DOMAIN reg THEN reg
  ELSE IF Tail(reg[e]) = << >> THEN MapDelete(reg, e)
       ELSE MapSet(reg, e, Tail(reg[e]))
\* (a deletion that leaves an empty Set under the key, for comparison)
UnregisterKeepsKey(reg, e, cb) ==
  IF e \notin DOMAIN reg THEN reg
  ELSE MapSet(reg, e, SetDelete(reg[e], cb))
\* the function on(event, callback) returns (lines 205-213): it deletes the
\* callback from the Set under the key, and the key with the last callback
Unregister(reg, e, cb) ==
  IF e \notin DOMAIN reg THEN reg
  ELSE IF SetDelete(reg[e], cb) = << >> THEN MapDelete(reg, e)
       ELSE MapSet(reg, e, SetDelete(reg[e], cb))

\* (emit without the try/catch, for comparison)
CaughtNothing(cb) == FALSE
\* the try/catch of lines 220-224 around every listener call
Caught(cb) == TRUE

RECURSIVE EmitLoop(_, _, _, _, _)
\* `listeners.forEach(callback => ..)` of emit(e, data), at position i of the
\* Set: forEach visits what is added to the Set while it runs and skips what
\* is deleted from it before being visited.  A listener is application code:
\* "throws" throws, "adds" calls on(e, late), "once" calls the unsubscribe
\* function of its own registration, the others only return.
EmitLoop(e, data, i, reg, inv) ==
  IF i > Len(ListenersOf(reg, e)) THEN [reg |-> reg, invoked |-> inv]
  ELSE LET cb == ListenersOf(reg, e)[i]
           inv2 == Append(inv, [cb |-> cb, data |-> data])
       IN CASE cb = "adds" -> EmitLoop(e, data, i + 1, Register(reg, e, "late"), inv2)
            [] cb = "once" -> EmitLoop(e, data, i, Unregister(reg, e, cb), inv2)
            [] cb = "throws" /\ ~Caught(cb) -> [reg |-> reg, invoked |-> inv2]
            [] OTHER -> EmitLoop(e, data, i + 1, reg, inv2)

\* emit(event, data) (lines 216-227): the registry and the listener calls
Emit(e, data, reg) == EmitLoop(e, data, 1, reg, << >>)

\* what the application registers: a listener that registers or unsubscribes
\* does so for the event it listens to, and "late" is registered by "adds"
Registrable(e) == IF e = "thread:new" THEN Callbacks \ {"late"} ELSE {"ok"}
\* the unsubscribe functions the application can hold
Unsubscribable(e) == IF e = "thread:new" THEN Callbacks ELSE {"ok"}

On(e, cb) ==
  /\ NoEventInProgress
  /\ eventListeners' = Register(eventListeners, e, cb)
  /\ lastOp' = Plain("on")
  /\ out' = << >>
  /\ invoked' = << >>
  /\ UNCHANGED <<linkVars, rooms>>

\* a call of the function on(e, cb) returned
Unsubscribe(e, cb) ==
  /\ NoEventInProgress
  /\ eventListeners' = Unregister(eventListeners, e, cb)
  /\ lastOp' = Plain("unsubscribe")
  /\ out' = << >>
  /\ invoked' = << >>
  /\ UNCHANGED <<linkVars, rooms>>

\* (handleMessage without the test for pong, for comparison)
HandleMessageAll(f, reg) == Emit(f.type, f.data, reg)
\* handleMessage (lines 162-168) of a parsed frame
HandleMessage(f, reg) ==
  IF f.type = "pong" THEN [reg |-> reg, invoked |-> << >>]
  ELSE Emit(f.type, f.data, reg)

\* (a catch that hands the error to the listeners, for comparison)
OnParseErrorEmits(reg) == Emit("thread:new", "error", reg)
\* the catch of lines 80-82, which logs: the registry and the listener calls
OnParseError(reg) == [reg |-> reg, invoked |-> << >>]

\* ws.onmessage (lines 76-83) of socket t, for the frame raw
TransportMessage(t, raw) ==
  /\ NoEventInProgress
  /\ t.rec.st \in {"open", "closing"}
  /\ IF raw.json
     THEN /\ eventListeners' = HandleMessage(raw, eventListeners).reg
          /\ invoked' = HandleMessage(raw, eventListeners).invoked
          /\ lastOp' = Op("onmessage", Which(t), "none", 0,
                          IF raw.type = "pong" THEN "none" ELSE raw.type)
     ELSE \* JSON.parse throws
          /\ eventListeners' = OnParseError(eventListeners).reg
          /\ invoked' = OnParseError(eventListeners).invoked
          /\ lastOp' = Op("onmessage", Which(t), "caught", 0, "none")
  /\ out' = << >>
  /\ UNCHANGED <<linkVars, rooms>>

\* ------------------------------------------------------------------ send
\* (the spread written the other way round, for comparison)
FullMessageCallerWins(m) ==
  [k \in DOMAIN m \cup {"timestamp"} |-> IF k \in DOMAIN m THEN m[k] ELSE Now]
\* `{...message, timestamp: new Date().toISOString()}`
FullMessage(m) ==
  [k \in DOMAIN m \cup {"timestamp"} |-> IF k = "timestamp" THEN Now ELSE m[k]]

\* JSON.stringify of an object leaves out the keys whose value is undefined
Stringify(m) ==
  LET keep == { k \in DOMAIN m : m[k] # Undefined } IN [k \in keep |-> m[k]]

\* (send without its readyState guard, for comparison)
SendFramesAlways(w, m) == << Stringify(FullMessage(m)) >>
\* send(message) (lines 170-180) with this.ws = w: the frames it writes to w
SendFrames(w, m) ==
  IF WsOpen(w) THEN << Stringify(FullMessage(m)) >> ELSE << >>

JoinMessage(r) == [type |-> "room:join", data |-> r]
LeaveMessage(r) == [type |-> "room:leave", data |-> r]
PingMessage == [type |-> "ping", data |-> "{}"]

RECURSIVE ReplayFrames(_, _)
\* `this.rooms.forEach(room => this.joinRoom(room))`: joinRoom re-adds a room
\* that is already in the set, which changes nothing, and sends
ReplayFrames(w, rs) ==
  IF rs = << >> THEN << >>
  ELSE SendFrames(w, JoinMessage(Head(rs))) \o ReplayFrames(w, Tail(rs))

RECURSIVE ReplayInto(_, _)
\* the Room Set acc after joinRoom has been called for the rooms rs
ReplayInto(rs, acc) ==
  IF rs = << >> THEN acc ELSE ReplayInto(Tail(rs), SetAdd(acc, Head(rs)))

\* (a replay that takes the rooms out of the set, for comparison)
ReplayRoomsConsumes(rs) == << >>
\* the Room Set after the replay of lines 69-71: `this.rooms.add(roomId)` of
\* joinRoom, for every room of the set
ReplayRooms(rs) == ReplayInto(rs, rs)

Send(m) ==
  /\ NoEventInProgress
  /\ out' = SendFrames(ws, m)
  /\ lastOp' = Plain("send")
  /\ invoked' = << >>
  /\ UNCHANGED sessionVars

JoinRoom(r) ==
  /\ NoEventInProgress
  /\ rooms' = SetAdd(rooms, r)
  /\ out' = SendFrames(ws, JoinMessage(r))
  /\ lastOp' = Plain("joinRoom")
  /\ invoked' = << >>
  /\ UNCHANGED <<linkVars, eventListeners>>

LeaveRoom(r) ==
  /\ NoEventInProgress
  /\ rooms' = SetDelete(rooms, r)
  /\ out' = SendFrames(ws, LeaveMessage(r))
  /\ lastOp' = Plain("leaveRoom")
  /\ invoked' = << >>
  /\ UNCHANGED <<linkVars, eventListeners>>

\* --------------------------------------------------------------- connect
\* the guard of line 46
AlreadyConnecting == isConnecting \/ WsOpen(ws)

\* `this.connectionPromise || Promise.resolve()`: the promise of the marked
\* socket ("link"), the one of a connect() whose `new WebSocket` threw
\* ("ctor"), or a fresh resolved one ("fresh")
Returned ==
  CASE connectionPromise = "null" -> "fresh"
    [] connectionPromise = "ctor" -> "ctor"
    [] OTHER -> "link"

\* the socket this.ws pointed at, once `this.ws = new WebSocket(..)` has left it
Left(w) == IF w.st \in {"null", "closed"} THEN EmptyBag ELSE One(Unmark(w))

\* the body of connect() (lines 45-110); the caller says who called and fixes
\* reconnectAttempts
ConnectBody(name) ==
  IF AlreadyConnecting
  THEN /\ lastOp' = Op(name, "none", Returned, 0, "none")
       /\ UNCHANGED <<ws, stale, isConnecting, connectionPromise>>
  ELSE IF ~config.urlOk
  THEN \* `new WebSocket` throws: lines 102-106, then the assignment of 51
       /\ isConnecting' = FALSE
       /\ connectionPromise' = "ctor"
       /\ ws' = Unmark(ws)
       /\ stale' = UnmarkBag(stale)
       /\ lastOp' = Op(name, "none", "ctor", 0, "none")
  ELSE /\ BagCardinality(stale (+) Left(ws)) <= MaxStale
       /\ stale' = UnmarkBag(stale) (+) Left(ws)
       /\ ws' = NewSocket
       /\ isConnecting' = TRUE
       /\ connectionPromise' = "link"
       /\ lastOp' = Op(name, "none", "new", 0, "none")

Connect ==
  /\ NoEventInProgress
  /\ ConnectBody("connect")
  /\ out' = << >>
  /\ invoked' = << >>
  /\ UNCHANGED <<config, maxReconnectAttempts, reconnectInterval,
                 reconnectAttempts, reconnectTimer, orphanTimers, pingTimer,
                 orphanPing, rooms, eventListeners>>

\* the callback of the timer handleDisconnect sets (lines 150-155); `handle`
\* says whether this.reconnectTimer still points at the timer that fires
ReconnectTimerFire(handle) ==
  /\ NoEventInProgress
  /\ IF handle
     THEN /\ reconnectTimer = "pending"
          /\ reconnectTimer' = "done"
          /\ UNCHANGED orphanTimers
     ELSE /\ orphanTimers > 0
          /\ orphanTimers' = orphanTimers - 1
          /\ UNCHANGED reconnectTimer
  /\ reconnectAttempts' = reconnectAttempts + 1
  /\ ConnectBody("reconnect")
  /\ out' = << >>
  /\ invoked' = << >>
  /\ UNCHANGED <<config, maxReconnectAttempts, reconnectInterval, pingTimer,
                 orphanPing, rooms, eventListeners>>

\* (a resolve or reject that is lost, for comparison)
SettleNothing(r, how) == r.promise
\* the promise of socket r after resolve() or reject(): the first call settles
Settle(r, how) == IF r.promise = "pending" THEN how ELSE r.promise

\* the 10 s timer of lines 56-59, of socket t
HandshakeTimeout(t) ==
  /\ NoEventInProgress
  /\ t.rec.timeout
  /\ LET r == [t.rec EXCEPT !.timeout = FALSE, !.promise = Settle(t.rec, "rejected")]
     IN /\ ws' = WsAfter(t, r)
        /\ stale' = StaleAfter(t, r)
  /\ isConnecting' = FALSE
  /\ lastOp' = Op("timeout", Which(t), "none", 0, "none")
  /\ out' = << >>
  /\ invoked' = << >>
  /\ UNCHANGED <<config, maxReconnectAttempts, reconnectInterval,
                 connectionPromise, reconnectAttempts, reconnectTimer,
                 orphanTimers, pingTimer, orphanPing, rooms, eventListeners>>

\* ws.onopen (lines 61-74) of socket t
TransportOpen(t) ==
  /\ NoEventInProgress
  /\ t.rec.st = "connecting"
  /\ LET r == [t.rec EXCEPT !.st = "open", !.timeout = FALSE, !.opened = TRUE,
                            !.promise = Settle(t.rec, "resolved")]
     IN /\ ws' = WsAfter(t, r)
        /\ stale' = StaleAfter(t, r)
        /\ out' = ReplayFrames(WsAfter(t, r), rooms)
  /\ rooms' = ReplayRooms(rooms)
  /\ isConnecting' = FALSE
  /\ reconnectAttempts' = 0
  \* startPingInterval (lines 132-136) overwrites the handle without clearing
  /\ pingTimer' = "active"
  /\ orphanPing' = (orphanPing \/ pingTimer = "active")
  /\ lastOp' = Op("onopen", Which(t), "none", 0, "none")
  /\ invoked' = << >>
  /\ UNCHANGED <<config, maxReconnectAttempts, reconnectInterval,
                 connectionPromise, reconnectTimer, orphanTimers,
                 eventListeners>>

\* the server starts the closing handshake: readyState becomes CLOSING
TransportClosing(t) ==
  /\ NoEventInProgress
  /\ t.rec.st = "open"
  /\ LET r == [t.rec EXCEPT !.st = "closing"]
     IN /\ ws' = WsAfter(t, r)
        /\ stale' = StaleAfter(t, r)
  /\ lastOp' = Op("closing", Which(t), "none", 0, "none")
  /\ out' = << >>
  /\ invoked' = << >>
  /\ UNCHANGED <<config, maxReconnectAttempts, reconnectInterval,
                 isConnecting, connectionPromise, reconnectAttempts,
                 reconnectTimer, orphanTimers, pingTimer, orphanPing, rooms,
                 eventListeners>>

\* ws.onerror (lines 95-101) of socket t, which is CLOSED when the event fires
TransportError(t) ==
  /\ NoEventInProgress
  /\ t.rec.st \in {"connecting", "open", "closing"}
  /\ LET r == [t.rec EXCEPT !.st = "erred", !.timeout = FALSE,
                            !.promise = Settle(t.rec, "rejected")]
     IN /\ ws' = Unmark(WsAfter(t, r))
        /\ stale' = UnmarkBag(StaleAfter(t, Unmark(r)))
  /\ isConnecting' = FALSE
  /\ connectionPromise' = "null"
  /\ lastOp' = Op("onerror", Which(t), "none", 0, "none")
  /\ out' = << >>
  /\ invoked' = << >>
  /\ UNCHANGED <<config, maxReconnectAttempts, reconnectInterval,
                 reconnectAttempts, reconnectTimer, orphanTimers, pingTimer,
                 orphanPing, rooms, eventListeners>>

\* (the condition with <=, one attempt more, for comparison)
ReschedulesAtLimit == reconnectAttempts <= maxReconnectAttempts
\* handleDisconnect (lines 145-160): does it set a reconnect timer
Reschedules == reconnectAttempts < maxReconnectAttempts
\* (the exponent one too high, for comparison)
BackoffDelayNext == reconnectInterval * Pow2(reconnectAttempts + 1)
\* the delay of line 147
BackoffDelay == reconnectInterval * Pow2(reconnectAttempts)

\* ws.onclose (lines 85-93) of socket t, with stopPingInterval (138-143) and
\* handleDisconnect (145-160)
TransportClose(t) ==
  /\ \A k \in Sockets : k.rec.st = "erred" => k = t
  /\ (Reschedules /\ reconnectTimer = "pending") => orphanTimers < MaxOrphans
  /\ LET r == IF t.cur THEN [t.rec EXCEPT !.st = "closed", !.timeout = FALSE]
              ELSE Null
     IN /\ ws' = Unmark(WsAfter(t, r))
        /\ stale' = UnmarkBag(StaleAfter(t, r))
  /\ isConnecting' = FALSE
  /\ connectionPromise' = "null"
  /\ pingTimer' = "null"
  /\ IF Reschedules
     THEN /\ reconnectTimer' = "pending"
          /\ orphanTimers' = IF reconnectTimer = "pending" THEN orphanTimers + 1
                             ELSE orphanTimers
          /\ lastOp' = Op("onclose", Which(t), "none", BackoffDelay, "none")
          /\ invoked' = << >>
          /\ UNCHANGED eventListeners
     ELSE /\ lastOp' = Op("onclose", Which(t), "none", 0, "connection:failed")
          /\ eventListeners' = Emit("connection:failed", "{}", eventListeners).reg
          /\ invoked' = Emit("connection:failed", "{}", eventListeners).invoked
          /\ UNCHANGED <<reconnectTimer, orphanTimers>>
  /\ out' = << >>
  /\ UNCHANGED <<config, maxReconnectAttempts, reconnectInterval,
                 reconnectAttempts, orphanPing, rooms>>

\* the callback of the interval startPingInterval sets (lines 133-135)
PingFire(handle) ==
  /\ NoEventInProgress
  /\ IF handle THEN pingTimer = "active" ELSE orphanPing
  /\ out' = SendFrames(ws, PingMessage)
  /\ lastOp' = Plain("ping")
  /\ invoked' = << >>
  /\ UNCHANGED sessionVars

\* disconnect() (lines 112-130)
DisconnectBody ==
  /\ NoEventInProgress
  /\ BagCardinality(stale (+) Left(ws)) <= MaxStale
  /\ reconnectTimer' = "null"
  /\ pingTimer' = "null"
  \* ws.close() makes a CONNECTING or OPEN socket CLOSING
  /\ stale' = stale (+)
       (IF ws.st \in {"null", "closed"} THEN EmptyBag
        ELSE One([ws EXCEPT !.st = "closing", !.closeCalled = TRUE]))
  /\ ws' = Null
  /\ rooms' = << >>
  /\ eventListeners' = NoListeners
  /\ UNCHANGED <<config, maxReconnectAttempts, reconnectInterval, isConnecting,
                 connectionPromise, reconnectAttempts, orphanTimers, orphanPing>>

\* disconnect() called by the application
Disconnect ==
  /\ DisconnectBody
  /\ lastOp' = Plain("disconnect")
  /\ out' = << >>
  /\ invoked' = << >>

\* isConnected() (lines 229-231)
IsConnected == WsOpen(ws)

\* getConnectionState() (lines 233-248); the default branch needs a
\* readyState that no WebSocket has
GetConnectionState ==
  IF ws = Null THEN "disconnected"
  ELSE CASE ws.st = "connecting" -> "connecting"
         [] ws.st = "open" -> "connected"
         [] ws.st = "closing" -> "closing"
         [] ws.st \in {"erred", "closed"} -> "closed"
         [] OTHER -> "unknown"

\* ------------------------------------------------------------ useRealtime
\* the hook instances that use the session of getWebSocketManager, with the
\* room `workspace:${workspaceId}` of each and the callback each subscribes
Consumers == {"h1", "h2"}
WorkspaceRoom(c) == IF c = "h1" THEN "r1" ELSE "r2"
ListenerOf(c) == IF c = "h1" THEN "ok" ELSE "late"

\* a hook instance: its state (lines 161-165), whether wsManagerRef.current
\* (line 167) is the session, and where its connect() is: "idle", "called"
\* (connect() of the session has returned a promise), "waiting" (at the await
\* of line 189), "resolved" or "rejected" (the awaited promise has settled
\* and the rest of connect() is due)
NewHook == [connected |-> FALSE, connecting |-> FALSE, error |-> FALSE,
            ref |-> FALSE, pc |-> "idle"]
NoHooks == [c \in Consumers |-> NewHook]

\* the sockets a promise of which can be awaited, and those hook c awaits
AllSockets == {ws} \cup BagToSet(stale)
Awaited(c) == { r \in AllSockets : c \in r.waiters }
Settled(r) == r.promise \in {"resolved", "rejected"}

\* a step of connect() of hook c is due: the call, the await and what
\* follows the await run without another task in between
Due(c) ==
  \/ hooks[c].pc \in {"called", "resolved", "rejected"}
  \/ hooks[c].pc = "waiting" /\ \E r \in Awaited(c) : Settled(r)
Quiet == \A c \in Consumers : ~Due(c)

\* connect (lines 174-189) of hook c, up to the call of connect() of the
\* session; one call of it is in progress at a time
HookConnect(c) ==
  /\ hooks[c].pc = "idle"
  /\ IF hooks[c].ref /\ IsConnected
     THEN /\ lastOp' = Plain("useRealtime.connect")
          /\ out' = << >>
          /\ invoked' = << >>
          /\ UNCHANGED <<sessionVars, hooks>>
     ELSE /\ Connect
          /\ hooks' = [hooks EXCEPT ![c] =
               [@ EXCEPT !.connecting = TRUE, !.error = FALSE, !.ref = TRUE,
                         !.pc = CASE lastOp'.ret = "fresh" -> "resolved"
                                  [] lastOp'.ret = "ctor" -> "rejected"
                                  [] OTHER -> "called"]]

\* socket r with hook c among, or no longer among, those that await its promise
Await(r, c) == [r EXCEPT !.waiters = @ \cup {c}]
Unawait(r, c) == [r EXCEPT !.waiters = @ \ {c}]

\* the await of line 189, on the promise connect() of the session returned,
\* which is this.connectionPromise
HookAwait(c) ==
  /\ hooks[c].pc = "called"
  /\ IF ws.cp
     THEN ws' = Await(ws, c) /\ UNCHANGED stale
     ELSE /\ \E m \in BagToSet(stale) :
               m.cp /\ stale' = (stale (-) One(m)) (+) One(Await(m, c))
          /\ UNCHANGED ws
  /\ hooks' = [hooks EXCEPT ![c].pc = "waiting"]
  /\ UNCHANGED <<config, maxReconnectAttempts, reconnectInterval, isConnecting,
                 connectionPromise, reconnectAttempts, reconnectTimer,
                 orphanTimers, pingTimer, orphanPing, rooms, eventListeners,
                 obsVars>>

\* the promise hook c awaits has settled: the await returns or throws
HookSettled(c) ==
  /\ hooks[c].pc = "waiting"
  /\ \E r \in Awaited(c) :
       /\ Settled(r)
       /\ hooks' = [hooks EXCEPT ![c].pc = r.promise]
       /\ IF r = ws
          THEN ws' = Unawait(ws, c) /\ UNCHANGED stale
          ELSE stale' = (stale (-) One(r)) (+) One(Unawait(r, c)) /\ UNCHANGED ws
  /\ UNCHANGED <<config, maxReconnectAttempts, reconnectInterval, isConnecting,
                 connectionPromise, reconnectAttempts, reconnectTimer,
                 orphanTimers, pingTimer, orphanPing, rooms, eventListeners,
                 obsVars>>

\* connect (lines 191-202) of hook c after the await: joinRoom and
\* connected = true, or the catch, which is also where the TypeError of
\* `wsManagerRef.current.joinRoom` goes when disconnect (line 209) has set the
\* ref to null during the await
HookResume(c) ==
  /\ hooks[c].pc \in {"resolved", "rejected"}
  /\ IF hooks[c].pc = "resolved" /\ hooks[c].ref
     THEN /\ JoinRoom(WorkspaceRoom(c))
          /\ hooks' = [hooks EXCEPT ![c] =
               [@ EXCEPT !.connected = TRUE, !.connecting = FALSE, !.pc = "idle"]]
     ELSE /\ hooks' = [hooks EXCEPT ![c] =
               [@ EXCEPT !.connected = FALSE, !.connecting = FALSE,
                         !.error = TRUE, !.pc = "idle"]]
          /\ lastOp' = Plain("useRealtime.catch")
          /\ out' = << >>
          /\ invoked' = << >>
          /\ UNCHANGED sessionVars

\* disconnect (lines 205-213) of hook c, which the cleanup of the
\* auto-connect effect (lines 299-301) calls: leaveRoom and disconnect() of
\* the session, then the state
HookDisconnect(c) ==
  /\ IF hooks[c].ref
     THEN /\ DisconnectBody
          /\ out' = SendFrames(ws, LeaveMessage(WorkspaceRoom(c)))
     ELSE /\ out' = << >>
          /\ UNCHANGED sessionVars
  /\ lastOp' = Plain("useRealtime.disconnect")
  /\ invoked' = << >>
  /\ hooks' = [hooks EXCEPT ![c] =
       [@ EXCEPT !.ref = FALSE, !.connected = FALSE, !.connecting = FALSE,
                 !.error = FALSE]]

\* subscribe (lines 215-230) of hook c, for its callback
HookSubscribe(c) ==
  /\ IF hooks[c].ref
     THEN On("thread:new", ListenerOf(c))
     ELSE /\ lastOp' = Plain("useRealtime.subscribe")
          /\ out' = << >>
          /\ invoked' = << >>
          /\ UNCHANGED sessionVars
  /\ UNCHANGED hooks

\* ------------------------------------------------------- useUserPresence
\* (the condition with <=, for comparison)
FreshInclusive(ts, t) == (t - ts) * 1000 <= StaleMs * TicksPerSecond
\* the condition of line 401 that keeps an entry, with times in ticks
Fresh(ts, t) == (t - ts) * 1000 < StaleMs * TicksPerSecond

\* the updater of the sweep (lines 398-406) at time t
Swept(m, t) == [u \in { v \in DOMAIN m : Fresh(m[v], t) } |-> m[u]]

\* getTypingUsers (lines 416-419) and isUserTyping (412-414)
GetTypingUsers == DOMAIN typingUsers
IsUserTyping(u) == u \in DOMAIN typingUsers

\* the callback of the interval of lines 396-407, every SweepPeriodMs
Sweep ==
  /\ now = nextSweep
  /\ typingUsers' = Swept(typingUsers, now)
  /\ nextSweep' = now + (SweepPeriodMs * TicksPerSecond) \div 1000
  /\ UNCHANGED <<now, onlineUsers>>

\* time passes; an interval that is due fires first
Tick ==
  /\ now < Horizon
  /\ now < nextSweep
  /\ now' = now + 1
  /\ UNCHANGED <<nextSweep, onlineUsers, typingUsers>>

\* the threads a user:typing frame can name, and the data of the frames the
\* three listeners take (lines 366, 369 and 376)
Threads == {"t1", "t2"}
PresenceData == [userId : Users]
TypingData == [userId : Users, threadId : Threads, isTyping : BOOLEAN]

\* getTypingUsers(threadId) (lines 416-419): the argument is not used
GetTypingUsersOf(threadId) == GetTypingUsers

\* (a listener that keeps the timestamp an entry already has, for comparison)
UserTypingKeepsOld(u, isTyping) ==
  /\ typingUsers' =
       IF isTyping
       THEN [v \in DOMAIN typingUsers \cup {u} |->
               IF v \in DOMAIN typingUsers THEN typingUsers[v] ELSE now]
       ELSE [v \in DOMAIN typingUsers \ {u} |-> typingUsers[v]]
  /\ UNCHANGED <<now, nextSweep, onlineUsers>>

\* the user:typing listener (lines 376-386)
UserTyping(u, isTyping) ==
  /\ typingUsers' =
       IF isTyping
       THEN [v \in DOMAIN typingUsers \cup {u} |-> IF v = u THEN now ELSE typingUsers[v]]
       ELSE [v \in DOMAIN typingUsers \ {u} |-> typingUsers[v]]
  /\ UNCHANGED <<now, nextSweep, onlineUsers>>

\* the user:online and user:offline listeners (lines 366-375)
UserOnline(u) ==
  /\ onlineUsers' = onlineUsers \cup {u}
  /\ UNCHANGED <<now, nextSweep, typingUsers>>

\* (a listener that empties the set, for comparison)
UserOfflineAll(u) ==
  /\ onlineUsers' = {}
  /\ UNCHANGED <<now, nextSweep, typingUsers>>

\* the user:offline listener (lines 369-375)
UserOffline(u) ==
  /\ onlineUsers' = onlineUsers \ {u}
  /\ UNCHANGED <<now, nextSweep, typingUsers>>

\* the hook when it mounts: the first sweep is due within one period
HookInit ==
  /\ now = 0
  /\ nextSweep \in 1..((SweepPeriodMs * TicksPerSecond) \div 1000)
  /\ onlineUsers = {}
  /\ typingUsers = << >>

\* --------------------------------------------------------- specifications
NoHistory == [est |-> FALSE, n |-> 0, emits |-> 0]

InitWith(cfgs) ==
  /\ \E cfg \in cfgs : Constructor(cfg)
  /\ lastOp = Plain("new")
  /\ out = << >>
  /\ invoked = << >>
  /\ torn = FALSE
  /\ failedRun = NoHistory
  /\ now = 0
  /\ nextSweep = 1
  /\ onlineUsers = {}
  /\ typingUsers = << >>
  /\ hooks = NoHooks

\* The session with every call of the application and every event of the
\* transport and the timers, for a session that gives up after one or two
\* reconnect attempts, or whose URL `new WebSocket` rejects.  The history
\* records that disconnect() has been called.
Init ==
  InitWith({ c \in Configs : ~c.urlOk \/ ("reconnectAttempts" \in DOMAIN c
                                          /\ c.reconnectAttempts \in {1, 2}) })

Next ==
  \/ Connect /\ UNCHANGED <<histVars, hookVars>>
  \/ Disconnect /\ torn' = TRUE /\ UNCHANGED <<failedRun, hookVars>>
  \/ \E t \in Sockets : TransportOpen(t) /\ UNCHANGED <<histVars, hookVars>>
  \/ \E t \in Sockets : TransportClosing(t) /\ UNCHANGED <<histVars, hookVars>>
  \/ \E t \in Sockets : TransportError(t) /\ UNCHANGED <<histVars, hookVars>>
  \/ \E t \in Sockets : TransportClose(t) /\ UNCHANGED <<histVars, hookVars>>
  \/ \E t \in Sockets : HandshakeTimeout(t) /\ UNCHANGED <<histVars, hookVars>>
  \/ \E h \in BOOLEAN : ReconnectTimerFire(h) /\ UNCHANGED <<histVars, hookVars>>
  \/ \E h \in BOOLEAN : PingFire(h) /\ UNCHANGED <<histVars, hookVars>>

Spec == Init /\ [][Next]_vars

\* The session whose application joins and leaves rooms.
InitRooms == InitWith({ [urlOk |-> TRUE, reconnectAttempts |-> 1] })

NextRooms ==
  \/ Connect /\ UNCHANGED <<histVars, hookVars>>
  \/ Disconnect /\ UNCHANGED <<histVars, hookVars>>
  \/ \E r \in Rooms : JoinRoom(r) /\ UNCHANGED <<histVars, hookVars>>
  \/ \E r \in Rooms : LeaveRoom(r) /\ UNCHANGED <<histVars, hookVars>>
  \/ \E t \in Sockets : TransportOpen(t) /\ UNCHANGED <<histVars, hookVars>>
  \/ \E t \in Sockets : TransportClosing(t) /\ UNCHANGED <<histVars, hookVars>>
  \/ \E t \in Sockets : TransportError(t) /\ UNCHANGED <<histVars, hookVars>>
  \/ \E t \in Sockets : TransportClose(t) /\ UNCHANGED <<histVars, hookVars>>
  \/ \E t \in Sockets : HandshakeTimeout(t) /\ UNCHANGED <<histVars, hookVars>>
  \/ \E h \in BOOLEAN : ReconnectTimerFire(h) /\ UNCHANGED <<histVars, hookVars>>
  \/ \E h \in BOOLEAN : PingFire(h) /\ UNCHANGED <<histVars, hookVars>>

SpecRooms == InitRooms /\ [][NextRooms]_vars

\* The session whose application sends messages.
InitSend == InitWith({ [urlOk |-> TRUE, reconnectAttempts |-> 1] })

NextSend ==
  \/ Connect /\ UNCHANGED <<histVars, hookVars>>
  \/ Disconnect /\ UNCHANGED <<histVars, hookVars>>
  \/ \E m \in Messages : Send(m) /\ UNCHANGED <<histVars, hookVars>>
  \/ \E t \in Sockets : TransportOpen(t) /\ UNCHANGED <<histVars, hookVars>>
  \/ \E t \in Sockets : TransportClosing(t) /\ UNCHANGED <<histVars, hookVars>>
  \/ \E t \in Sockets : TransportClose(t) /\ UNCHANGED <<histVars, hookVars>>
  \/ \E t \in Sockets : HandshakeTimeout(t) /\ UNCHANGED <<histVars, hookVars>>
  \/ \E h \in BOOLEAN : ReconnectTimerFire(h) /\ UNCHANGED <<histVars, hookVars>>
  \/ \E h \in BOOLEAN : PingFire(h) /\ UNCHANGED <<histVars, hookVars>>

SpecSend == InitSend /\ [][NextSend]_vars

\* The reconnection state machine left to itself: the application calls
\* connect() once, on the new session, and registers listeners for
\* connection:failed; the transport and the timers do what they can.  The
\* history counts the sockets that close without having opened.
InitReconnect == InitWith(Configs)

Closed(t) ==
  IF t.rec.opened THEN [failedRun EXCEPT !.est = TRUE, !.n = 0]
  ELSE [failedRun EXCEPT !.n = @ + 1]
Emitted(h) ==
  IF lastOp'.emitted = "connection:failed" THEN [h EXCEPT !.emits = @ + 1] ELSE h

NextReconnect ==
  \/ ws = Null /\ Connect /\ UNCHANGED <<histVars, hookVars>>
  \/ \E cb \in {"ok", "throws"} :
       On("connection:failed", cb) /\ UNCHANGED <<histVars, hookVars>>
  \/ \E t \in Sockets :
       TransportOpen(t) /\ failedRun' = [failedRun EXCEPT !.est = FALSE, !.n = 0]
                        /\ UNCHANGED <<torn, hookVars>>
  \/ \E t \in Sockets : TransportClosing(t) /\ UNCHANGED <<histVars, hookVars>>
  \/ \E t \in Sockets : TransportError(t) /\ UNCHANGED <<histVars, hookVars>>
  \/ \E t \in Sockets :
       TransportClose(t) /\ failedRun' = Emitted(Closed(t))
                         /\ UNCHANGED <<torn, hookVars>>
  \/ \E t \in Sockets : HandshakeTimeout(t) /\ UNCHANGED <<histVars, hookVars>>
  \/ \E h \in BOOLEAN : ReconnectTimerFire(h) /\ UNCHANGED <<histVars, hookVars>>
  \/ \E h \in BOOLEAN : PingFire(h) /\ UNCHANGED <<histVars, hookVars>>

SpecReconnect == InitReconnect /\ [][NextReconnect]_vars

\* The Event Dispatcher on a session that connects, receives frames and
\* loses its link.
InitDispatch == InitWith({ [urlOk |-> TRUE, reconnectAttempts |-> 1] })

NextDispatch ==
  \/ Connect /\ UNCHANGED <<histVars, hookVars>>
  \/ \E e \in Events : \E cb \in Registrable(e) :
       On(e, cb) /\ UNCHANGED <<histVars, hookVars>>
  \/ \E e \in Events : \E cb \in Unsubscribable(e) :
       Unsubscribe(e, cb) /\ UNCHANGED <<histVars, hookVars>>
  \/ \E t \in Sockets : TransportOpen(t) /\ UNCHANGED <<histVars, hookVars>>
  \/ \E t \in Sockets : \E raw \in RawFrames :
       TransportMessage(t, raw) /\ UNCHANGED <<histVars, hookVars>>
  \/ \E t \in Sockets : TransportClose(t) /\ UNCHANGED <<histVars, hookVars>>

SpecDispatch == InitDispatch /\ [][NextDispatch]_vars

\* The Listener Registry under on(), the functions on() returns, dispatches
\* and disconnect().
InitRegistry == InitWith({ [urlOk |-> TRUE, reconnectAttempts |-> 1] })

NextRegistry ==
  \/ ws = Null /\ Connect /\ UNCHANGED <<histVars, hookVars>>
  \/ Disconnect /\ torn' = TRUE /\ UNCHANGED <<failedRun, hookVars>>
  \/ \E e \in Events : \E cb \in Registrable(e) :
       On(e, cb) /\ UNCHANGED <<histVars, hookVars>>
  \/ \E e \in Events : \E cb \in Unsubscribable(e) :
       Unsubscribe(e, cb) /\ UNCHANGED <<histVars, hookVars>>
  \/ \E t \in Sockets : TransportOpen(t) /\ UNCHANGED <<histVars, hookVars>>
  \/ \E t \in Sockets : \E raw \in RawFrames :
       raw.json /\ TransportMessage(t, raw) /\ UNCHANGED <<histVars, hookVars>>

SpecRegistry == InitRegistry /\ [][NextRegistry]_vars

\* Two useRealtime hook instances on the session of getWebSocketManager, with
\* handshakes that succeed or fail before the 10 s timer.
InitHooks == InitWith({ [urlOk |-> TRUE, reconnectAttempts |-> 1] })

NextHooks ==
  \/ \E c \in Consumers :
       Quiet /\ HookConnect(c) /\ UNCHANGED <<histVars, presenceVars>>
  \/ \E c \in Consumers : HookAwait(c) /\ UNCHANGED <<histVars, presenceVars>>
  \/ \E c \in Consumers : HookSettled(c) /\ UNCHANGED <<histVars, presenceVars>>
  \/ \E c \in Consumers : HookResume(c) /\ UNCHANGED <<histVars, presenceVars>>
  \/ \E c \in Consumers :
       Quiet /\ HookSubscribe(c) /\ UNCHANGED <<histVars, presenceVars>>
  \/ \E c \in Consumers :
       /\ Quiet
       /\ HookDisconnect(c)
       /\ torn' = (torn \/ hooks[c].ref)
       /\ UNCHANGED <<failedRun, presenceVars>>
  \/ \E t \in Sockets :
       Quiet /\ TransportOpen(t) /\ UNCHANGED <<histVars, hookVars>>
  \/ \E t \in Sockets :
       Quiet /\ TransportError(t) /\ UNCHANGED <<histVars, hookVars>>
  \/ \E t \in Sockets :
       Quiet /\ TransportClose(t) /\ UNCHANGED <<histVars, hookVars>>
  \/ \E h \in BOOLEAN :
       Quiet /\ ReconnectTimerFire(h) /\ UNCHANGED <<histVars, hookVars>>

SpecHooks == InitHooks /\ [][NextHooks]_vars

\* The presence hook: its listeners and its sweep, on a clock.
InitTyping ==
  /\ Constructor([urlOk |-> TRUE])
  /\ lastOp = Plain("new")
  /\ out = << >>
  /\ invoked = << >>
  /\ torn = FALSE
  /\ failedRun = NoHistory
  /\ HookInit
  /\ hooks = NoHooks

NextTyping ==
  \/ Tick /\ UNCHANGED <<sessionVars, obsVars, histVars, hooks>>
  \/ Sweep /\ UNCHANGED <<sessionVars, obsVars, histVars, hooks>>
  \/ \E u \in Users : \E b \in BOOLEAN :
       UserTyping(u, b) /\ UNCHANGED <<sessionVars, obsVars, histVars, hooks>>
  \/ \E u \in Users : UserOnline(u) /\ UNCHANGED <<sessionVars, obsVars, histVars, hooks>>
  \/ \E u \in Users : UserOffline(u) /\ UNCHANGED <<sessionVars, obsVars, histVars, hooks>>

SpecTyping == InitTyping /\ [][NextTyping]_vars

\* the presence hook with the frame of each step kept in lastOp: the event in
\* op, the userId in ret, the threadId in sock and isTyping in emitted
InitPresence == InitTyping

Heard(name, d) ==
  Op(name,
     IF "threadId" \in DOMAIN d THEN d.threadId ELSE "none",
     d.userId, 0,
     IF "isTyping" \in DOMAIN d THEN (IF d.isTyping THEN "true" ELSE "false") ELSE "none")

NextPresence ==
  \/ Tick /\ lastOp' = Plain("tick")
          /\ UNCHANGED <<sessionVars, out, invoked, histVars, hooks>>
  \/ Sweep /\ lastOp' = Plain("sweep")
           /\ UNCHANGED <<sessionVars, out, invoked, histVars, hooks>>
  \/ \E d \in TypingData :
       /\ UserTyping(d.userId, d.isTyping)
       /\ lastOp' = Heard("user:typing", d)
       /\ UNCHANGED <<sessionVars, out, invoked, histVars, hooks>>
  \/ \E d \in PresenceData :
       /\ UserOnline(d.userId)
       /\ lastOp' = Heard("user:online", d)
       /\ UNCHANGED <<sessionVars, out, invoked, histVars, hooks>>
  \/ \E d \in PresenceData :
       /\ UserOffline(d.userId)
       /\ lastOp' = Heard("user:offline", d)
       /\ UNCHANGED <<sessionVars, out, invoked, histVars, hooks>>

SpecPresence == InitPresence /\ [][NextPresence]_vars

\* ----------------------------------------------------------------- claims
\* a handshake in flight: nothing has happened to the socket of connect() yet
InFlight(w) == w.st = "connecting" /\ w.timeout /\ w.promise = "pending"

\* C1 (under Spec): a connect() called while the handshake of an earlier
\* connect() is in flight opens no second link, and returns the promise of
\* that handshake, so that both callers see the same outcome.
C1_ConcurrentConnectOpensOneLink ==
  [][(InFlight(ws) /\ Connect)
       => (ws' = ws /\ stale' = stale /\ ws.cp /\ lastOp'.ret = "link")]_vars

\* C2 (under Spec): the close event of a socket that disconnect() closed
\* schedules no reconnect timer.
C2_CloseAfterDisconnectSchedulesNothing ==
  [][\A t \in Sockets :
       (t.rec.closeCalled /\ TransportClose(t))
         => UNCHANGED <<reconnectTimer, orphanTimers>>]_vars

\* C3 (under SpecReconnect): once an established link has closed, and while
\* the n links tried since have all closed without opening, n is at most
\* maxReconnectAttempts; connection:failed has been emitted exactly once when
\* n has reached maxReconnectAttempts and not at all before; and when it has
\* been reached no reconnect timer is pending and no socket is left that
\* could open.
C3_FailedOnceAfterMaxAttempts ==
  failedRun.est =>
    /\ failedRun.n <= maxReconnectAttempts
    /\ failedRun.n < maxReconnectAttempts => failedRun.emits = 0
    /\ failedRun.n = maxReconnectAttempts =>
         /\ failedRun.emits = 1
         /\ reconnectTimer # "pending"
         /\ orphanTimers = 0
         /\ Sockets = {}

C3_Witness ==
  /\ failedRun.est
  /\ failedRun.n = maxReconnectAttempts
  /\ failedRun.emits = 1
  /\ maxReconnectAttempts = DefaultReconnectAttempts
  /\ lastOp.emitted = "connection:failed"

\* the room:join frames among fs, for room r
JoinFrames(fs, r) == { i \in DOMAIN fs : fs[i] = Stringify(FullMessage(JoinMessage(r))) }

\* C4 (under SpecRooms): joinRoom and leaveRoom called while the session is
\* not connected add the id to the Room Set and remove it, and the handshake
\* that succeeds next sends exactly one room:join frame for each id in the
\* Room Set and nothing else.
C4_RoomsReplayedOnHandshake ==
  [][/\ \A r \in Rooms :
          (~WsOpen(ws) /\ JoinRoom(r)) => Range(rooms') = Range(rooms) \cup {r}
     /\ \A r \in Rooms :
          (~WsOpen(ws) /\ LeaveRoom(r)) => Range(rooms') = Range(rooms) \ {r}
     /\ \A t \in Sockets :
          TransportOpen(t) =>
            /\ \A r \in Rooms :
                 Cardinality(JoinFrames(out', r)) = IF r \in Range(rooms) THEN 1 ELSE 0
            /\ Len(out') = Len(rooms)]_vars

\* the frames of the messages of the application, as opposed to the joins,
\* leaves and pings the session writes itself
IsAppFrame(f) == f.type = "x"

\* C5 (under SpecSend): a send() while this.ws is not an open socket writes
\* no frame, returns, and leaves the session as it was; and a frame of a
\* message of the application is only ever written by the send() that was
\* given this message, called while the socket is open: nothing is queued
\* and written later.
C5_SendWhileNotConnectedIsDropped ==
  [][/\ \A m \in Messages :
          (~WsOpen(ws) /\ Send(m)) => (out' = << >> /\ UNCHANGED sessionVars)
     /\ (\E i \in DOMAIN out' : IsAppFrame(out'[i])) =>
          \E m \in Messages :
            WsOpen(ws) /\ Send(m) /\ out' = << Stringify(FullMessage(m)) >>]_vars

C5_Witness ==
  /\ lastOp.op = "send"
  /\ out = << >>
  /\ ws.st = "connecting"
  /\ \E r \in BagToSet(stale) : r.st = "open"

\* the value of key k of a JavaScript object, undefined when it has none
Get(m, k) == IF k \in DOMAIN m THEN m[k] ELSE Undefined

\* C6 (under SpecSend): a send(m) while this.ws is an open socket writes
\* exactly one frame, whose type and data are those of m, whose timestamp is
\* the time of the send whatever timestamp m carried, and which has a roomId
\* key only if m has one.
C6_SendWhileConnectedWritesOneFrame ==
  [][\A m \in Messages :
       (WsOpen(ws) /\ Send(m)) =>
         /\ Len(out') = 1
         /\ Get(out'[1], "type") = Get(m, "type")
         /\ Get(out'[1], "data") = Get(m, "data")
         /\ Get(out'[1], "timestamp") = Now
         /\ "roomId" \in DOMAIN out'[1] => "roomId" \in DOMAIN m
         /\ DOMAIN out'[1] \subseteq {"type", "data", "timestamp", "roomId"}]_vars

C6_Witness ==
  /\ lastOp.op = "send"
  /\ Len(out) = 1
  /\ out[1].timestamp = Now
  /\ "roomId" \notin DOMAIN out[1]

\* the number of calls of cb among the listener calls inv
Calls(inv, cb) == Cardinality({ i \in DOMAIN inv : inv[i].cb = cb })

\* C7 (under SpecDispatch): in a dispatch of an event that has a listener
\* that throws, every listener registered for the event when the dispatch
\* begins is called exactly once, and the handler that dispatches leaves the
\* connection state, the timers and the Room Set as they were.
C7_ThrowingListenerIsIsolated ==
  [][\A t \in Sockets : \A raw \in RawFrames :
       (/\ TransportMessage(t, raw)
        /\ raw.json
        /\ raw.type # "pong"
        /\ "throws" \in Range(ListenersOf(eventListeners, raw.type)))
         => /\ \A cb \in Range(ListenersOf(eventListeners, raw.type)) : Calls(invoked', cb) = 1
            /\ UNCHANGED <<linkVars, rooms>>]_vars

C7_Witness ==
  /\ lastOp.op = "onmessage"
  /\ Len(invoked) >= 3
  /\ invoked[1].cb = "throws"
  /\ invoked[2].cb = "ok"

\* C8 (under SpecDispatch): a callback whose unsubscribe function has been
\* called is not called by a dispatch until it is registered again.  In
\* steps: the unsubscribe function takes the callback out of the registry of
\* its event; a callback comes into a registry only by on(), called by the
\* application or by a listener that is being called; and a dispatch calls
\* only callbacks that are in the registry of its event when it begins or
\* that on() puts there while it runs.
C8_UnsubscribedIsNeverCalled ==
  [][/\ \A e \in Events : \A cb \in Callbacks :
          Unsubscribe(e, cb) => cb \notin Range(ListenersOf(eventListeners', e))
     /\ \A e \in Events : \A cb \in Range(ListenersOf(eventListeners', e)) \ Range(ListenersOf(eventListeners, e)) :
          \/ On(e, cb)
          \/ /\ cb = "late"
             /\ lastOp'.emitted = e
             /\ Calls(invoked', "adds") > 0
     /\ \A e \in Events :
          (lastOp'.emitted = e /\ lastOp'.op \in {"onmessage", "onclose"}) =>
            \A i \in DOMAIN invoked' :
              \/ invoked'[i].cb \in Range(ListenersOf(eventListeners, e))
              \/ invoked'[i].cb = "late" /\ Calls(invoked', "adds") > 0]_vars

C8_Witness ==
  /\ lastOp.op = "onmessage"
  /\ lastOp.emitted = "thread:new"
  /\ invoked # << >>
  /\ "ok" \notin Range(ListenersOf(eventListeners, "thread:new"))
  /\ Calls(invoked, "ok") = 0

\* the age, in ticks, of the Typing Map entry of u
Age(u) == now - typingUsers[u]

\* C9 (under SpecTyping), as the specification has it: between two sweeps,
\* no entry that getTypingUsers() returns is 3.5 s old or older.
C9_AbsentFrom3500ms ==
  now < nextSweep =>
    \A u \in GetTypingUsers : Age(u) * 1000 < 3500 * TicksPerSecond

\* C9 (under SpecTyping), corrected: no entry that getTypingUsers() returns
\* is as old as the staleness limit plus one period of the sweep, 4 s, when
\* the sweep fires every period on time.
C9_AbsentFromLimitPlusPeriod ==
  \A u \in GetTypingUsers : Age(u) * 1000 < (StaleMs + SweepPeriodMs) * TicksPerSecond

C9_Witness ==
  /\ now < nextSweep
  /\ \E u \in Users :
       /\ IsUserTyping(u)
       /\ Age(u) * 1000 >= 3500 * TicksPerSecond

\* C10 (under SpecDispatch): a dispatch calls only the listeners that are
\* registered for its event when it begins, not one that a listener registers
\* while the dispatch runs.
C10_DispatchCallsOnlyEarlierListeners ==
  [][\A e \in Events :
       (lastOp'.emitted = e /\ lastOp'.op \in {"onmessage", "onclose"}) =>
         \A i \in DOMAIN invoked' : invoked'[i].cb \in Range(ListenersOf(eventListeners, e))]_vars

\* C11 (under Spec): when disconnect() returns, no reconnect timer is
\* pending and no ping interval runs, with or without a handle pointing at
\* it, this.ws is null, and the Room Set and the listener registry are empty.
C11_DisconnectLeavesNothing ==
  [][Disconnect =>
       /\ reconnectTimer' # "pending"
       /\ orphanTimers' = 0
       /\ pingTimer' # "active"
       /\ ~orphanPing'
       /\ ws' = Null
       /\ rooms' = << >>
       /\ \A e \in Events : ListenersOf(eventListeners', e) = << >>]_vars

\* C12 (under Spec): once disconnect() has been called, no connect() creates
\* a socket, by the application or by a reconnect timer, and this.ws is never
\* an open socket again.
C12_DisconnectIsTerminal ==
  [][torn =>
       /\ (Connect \/ \E h \in BOOLEAN : ReconnectTimerFire(h)) => lastOp'.ret # "new"
       /\ ~WsOpen(ws')]_vars

\* C13 (under Spec): the ping interval this.pingTimer points at runs exactly
\* while this.ws is a socket that has opened and whose close event has not
\* fired, and no other ping interval runs.
C13_HeartbeatOnlyWhileOpen ==
  /\ pingTimer = "active" <=> (ws.opened /\ ws.st \in {"open", "closing", "erred"})
  /\ ~orphanPing

\* C14 (under SpecReconnect): after an established link has closed, the
\* close event that schedules a reconnect sets the timer to
\* reconnectInterval * 2^k, k being the number of links tried since the last
\* successful handshake (all of which have closed without opening); the
\* callback of the timer raises the attempt counter by exactly one, and a
\* successful handshake sets it to 0.
C14_BackoffDoublesPerAttempt ==
  [][/\ \A t \in Sockets :
          (TransportClose(t) /\ Reschedules /\ failedRun'.est)
            => lastOp'.delay = reconnectInterval * Pow2(failedRun'.n)
     /\ (\E h \in BOOLEAN : ReconnectTimerFire(h))
          => reconnectAttempts' = reconnectAttempts + 1
     /\ (\E t \in Sockets : TransportOpen(t)) => reconnectAttempts' = 0]_vars

C14_Witness ==
  /\ lastOp.op = "onclose"
  /\ failedRun.est
  /\ failedRun.n = 2
  /\ lastOp.delay = 4 * DefaultReconnectInterval

\* C15 (under SpecDispatch): a frame of type pong calls no listener, also
\* when a listener is registered under the name pong; a frame of any other
\* type calls every listener registered under its type exactly once, calls no
\* listener that is not registered under its type before or during the
\* dispatch, and passes the data of the frame to every call.
C15_PongIsConsumedOthersAreDelivered ==
  [][\A t \in Sockets : \A raw \in RawFrames :
       (TransportMessage(t, raw) /\ raw.json) =>
         IF raw.type = "pong" THEN invoked' = << >>
         ELSE /\ \A cb \in Range(ListenersOf(eventListeners, raw.type)) : Calls(invoked', cb) = 1
              /\ \A i \in DOMAIN invoked' :
                   /\ invoked'[i].cb \in Range(ListenersOf(eventListeners, raw.type))
                                         \cup Range(ListenersOf(eventListeners', raw.type))
                   /\ invoked'[i].data = raw.data]_vars

C15_Witness ==
  /\ lastOp.op = "onmessage"
  /\ lastOp.emitted = "thread:new"
  /\ invoked = << [cb |-> "ok", data |-> "d2"] >>
  /\ "ok" \in Range(ListenersOf(eventListeners, "pong"))

\* C16 (under SpecDispatch): the handler of a frame that is no JSON calls no
\* listener, writes no frame, returns, and leaves the sockets, the timers,
\* the attempt counter, the Room Set and the registry as they were, so that
\* the socket it came from can deliver the next frame.
C16_MalformedFrameIsDiscarded ==
  [][\A t \in Sockets : \A raw \in RawFrames :
       (TransportMessage(t, raw) /\ ~raw.json) =>
         /\ invoked' = << >>
         /\ out' = << >>
         /\ UNCHANGED sessionVars
         /\ t \in Sockets'
         /\ NoEventInProgress']_vars

C16_Witness ==
  /\ lastOp.op = "onmessage"
  /\ lastOp.ret = "caught"
  /\ invoked = << >>
  /\ "ok" \in Range(ListenersOf(eventListeners, "thread:new"))

\* C17 (under SpecRooms): a step that changes the Room Set is a joinRoom, a
\* leaveRoom or a disconnect(); the open event with its replay, the close and
\* error events, the handshake timeout and the reconnect timer leave it as
\* it was.
C17_RoomSetChangedOnlyByItsCalls ==
  [][rooms' # rooms =>
       \/ \E r \in Rooms : JoinRoom(r)
       \/ \E r \in Rooms : LeaveRoom(r)
       \/ Disconnect]_vars

C17_Witness ==
  /\ lastOp.op = "onopen"
  /\ rooms = << "r2", "r1" >>
  /\ Len(out) = 2
  /\ reconnectTimer = "done"

\* C18 (under Spec): whenever the application can call it,
\* getConnectionState() returns disconnected, connecting, connected or
\* closing, and disconnected when the close event of this.ws has fired.
C18_StateIsOneOfFour ==
  NoEventInProgress =>
    /\ GetConnectionState \in {"disconnected", "connecting", "connected", "closing"}
    /\ ws.st = "closed" => GetConnectionState = "disconnected"

\* the number of promises of connect() that are pending
PendingPromises ==
  (IF ws.promise = "pending" THEN 1 ELSE 0)
  + BagCardinality([r \in { x \in BagToSet(stale) : x.promise = "pending" } |-> stale[r]])

\* C19 (under Spec): an error event or the handshake timeout of a socket
\* whose connect() is not settled rejects the promise of that connect(), and
\* neither of them sets a reconnect timer or changes the attempt counter; a
\* step that sets a reconnect timer is a close event of a socket.
C19_ErrorAndTimeoutOnlyReject ==
  [][/\ \A t \in Sockets :
          (TransportError(t) \/ HandshakeTimeout(t)) =>
            /\ t.rec.promise = "pending" =>
                 /\ PendingPromises' = PendingPromises - 1
                 /\ IF t.cur THEN ws'.promise = "rejected"
                    ELSE \E r \in BagToSet(stale') : r.promise = "rejected"
            /\ UNCHANGED <<reconnectTimer, orphanTimers, reconnectAttempts>>
     /\ (\/ reconnectTimer' = "pending" /\ reconnectTimer # "pending"
         \/ orphanTimers' > orphanTimers)
          => \E t \in Sockets : TransportClose(t)]_vars

C19_Witness ==
  /\ lastOp.op = "timeout"
  /\ lastOp.sock = "ws"
  /\ ws.st = "connecting"
  /\ ws.promise = "rejected"
  /\ reconnectTimer = "pending"
  /\ reconnectAttempts = 1

\* C20 (under Spec): the promise of a connect() that is still pending has its
\* 10 s timer armed, so that it is settled when the timer fires at the
\* latest, whatever has happened to the socket.
C20_PendingOutcomeHasDeadline ==
  \A r \in {ws} \cup BagToSet(stale) : r.promise = "pending" => r.timeout

\* C21 (under SpecPresence): the Presence Set changes only on user:online
\* and user:offline frames. user:online adds the userId, and changes nothing
\* when it is already in the set; user:offline removes the userId, and
\* changes nothing when it is not in the set; a user:typing frame, a sweep
\* and the passing of time leave the set as it is.
C21_PresenceChangedOnlyByOnlineOffline ==
  [][LET u == lastOp'.ret IN
     /\ lastOp'.op = "user:online" =>
          /\ onlineUsers' = onlineUsers \cup {u}
          /\ u \in onlineUsers => onlineUsers' = onlineUsers
     /\ lastOp'.op = "user:offline" =>
          /\ onlineUsers' = onlineUsers \ {u}
          /\ u \notin onlineUsers => onlineUsers' = onlineUsers
     /\ lastOp'.op \notin {"user:online", "user:offline"} =>
          onlineUsers' = onlineUsers]_vars

\* user:offline has removed one user of two, after a user:typing frame of the
\* user that stays
C21_Witness ==
  /\ lastOp.op = "user:offline"
  /\ lastOp.ret \notin onlineUsers
  /\ \E v \in onlineUsers : IsUserTyping(v)

\* C22 (under SpecPresence): a user:typing frame with isTyping true sets
\* the Typing Map entry of its userId to the current time, also when the
\* user has an older entry; one with isTyping false deletes the entry; the
\* entries of the other users stay as they are. Whatever threadId the frame
\* has and whatever thread is asked for, getTypingUsers returns the keys of
\* the Typing Map, and isUserTyping(u) holds exactly for those keys.
C22_TypingFrameSetsOrDeletesOneEntry ==
  [][lastOp'.op = "user:typing" =>
       LET u == lastOp'.ret IN
       /\ lastOp'.emitted = "true" =>
            u \in DOMAIN typingUsers' /\ typingUsers'[u] = now
       /\ lastOp'.emitted = "false" => u \notin DOMAIN typingUsers'
       /\ \A v \in Users \ {u} :
            /\ v \in DOMAIN typingUsers' <=> v \in DOMAIN typingUsers
            /\ v \in DOMAIN typingUsers => typingUsers'[v] = typingUsers[v]
       /\ \A t \in Threads : GetTypingUsersOf(t)' = DOMAIN typingUsers'
       /\ \A v \in Users : IsUserTyping(v)' <=> v \in GetTypingUsers']_vars

\* a frame of thread t2 has set the entry of a user while the other user has
\* an older entry
C22_Witness ==
  /\ lastOp.op = "user:typing" /\ lastOp.emitted = "true" /\ lastOp.sock = "t2"
  /\ IsUserTyping(lastOp.ret) /\ typingUsers[lastOp.ret] = now
  /\ \E v \in GetTypingUsers : typingUsers[v] < now

\* C23 (under SpecDispatch): the listeners of connection:failed are called
\* only by the close handler that finds the reconnect attempts used up, never
\* by the handler of an inbound frame, whatever the type of the frame; and no
\* frame of type connection:failed is written to a socket.
C23_FailedOnlyWhenAttemptsExhausted ==
  [][/\ (lastOp'.emitted = "connection:failed" /\ invoked' # << >>) =>
          /\ lastOp'.op = "onclose"
          /\ reconnectAttempts >= maxReconnectAttempts
     /\ \A i \in DOMAIN out' : Get(out'[i], "type") # "connection:failed"]_vars

\* C24 (under SpecReconnect): in every state the maximum number of reconnect
\* attempts and the base interval of the session are the reconnectAttempts
\* and the reconnectInterval its constructor was given, whatever their value,
\* and are 5 and 1000 only when the constructor was given none.
C24_LimitsAreTheConfiguredOnes ==
  /\ maxReconnectAttempts =
       IF "reconnectAttempts" \in DOMAIN config
       THEN config.reconnectAttempts ELSE DefaultReconnectAttempts
  /\ reconnectInterval =
       IF "reconnectInterval" \in DOMAIN config
       THEN config.reconnectInterval ELSE DefaultReconnectInterval

\* e has the listener cb in the registry reg
Registered(reg, e, cb) == cb \in Range(ListenersOf(reg, e))

\* C25 (under SpecRegistry): a call of the function on(e, cb) returned
\* leaves cb unregistered under e and every other callback, under e and
\* under the other events, registered as before and in the same order; when
\* cb was the only callback under e the registry has no key e afterwards, and
\* it never has a key with no callback; and a call while cb is not registered
\* under e, after an earlier call or after a disconnect(), leaves the
\* registry as it was.
C25_UnsubscribeRemovesOnlyItsCallback ==
  [][\A e \in Events : \A cb \in Unsubscribable(e) :
       Unsubscribe(e, cb) =>
         /\ ~Registered(eventListeners', e, cb)
         /\ \A e2 \in Events : \A cb2 \in Callbacks :
              <<e2, cb2>> # <<e, cb>> =>
                (Registered(eventListeners', e2, cb2) <=> Registered(eventListeners, e2, cb2))
         /\ \A e2 \in Events \ {e} :
              /\ e2 \in DOMAIN eventListeners' <=> e2 \in DOMAIN eventListeners
              /\ ListenersOf(eventListeners', e2) = ListenersOf(eventListeners, e2)
         /\ \A i, j \in DOMAIN ListenersOf(eventListeners', e) :
              i < j =>
                \E k, l \in DOMAIN ListenersOf(eventListeners, e) :
                  /\ k < l
                  /\ ListenersOf(eventListeners, e)[k] = ListenersOf(eventListeners', e)[i]
                  /\ ListenersOf(eventListeners, e)[l] = ListenersOf(eventListeners', e)[j]
         /\ Range(ListenersOf(eventListeners, e)) \subseteq {cb} =>
              e \notin DOMAIN eventListeners'
         /\ \A e2 \in DOMAIN eventListeners' : eventListeners'[e2] # << >>
         /\ ~Registered(eventListeners, e, cb) => eventListeners' = eventListeners
         /\ lastOp.op = "disconnect" => eventListeners' = NoListeners]_vars

\* the function of the only listener of thread:new has been called, on a
\* session that disconnect() was called on before and that has a listener of
\* another event
C25_Witness ==
  /\ lastOp.op = "unsubscribe"
  /\ torn
  /\ DOMAIN eventListeners = {"pong"}

\* a link that is connecting or open, and the number of such links
Live(r) == r.st \in {"connecting", "open"}
LiveLinks ==
  Cardinality({ t \in Sockets : Live(t.rec) })
  + Cardinality({ r \in BagToSet(stale) : Live(r) /\ CopiesIn(r, stale) > 1 })

\* C26 (under Spec): at most one socket of the session is connecting or
\* open; a connect() creates a socket only when no earlier socket of the
\* session is left whose close event has not fired, after a handshake
\* timeout and after a disconnect() as well; and an event of a socket that is
\* no longer this.ws changes none of the fields kept for this.ws.
C26_OneLinkAtATime ==
  [][/\ LiveLinks' <= 1
     /\ (Connect /\ lastOp'.ret = "new") => Sockets = {}
     /\ \A t \in Sockets :
          (/\ ~t.cur
           /\ \/ TransportOpen(t) \/ TransportClosing(t) \/ TransportError(t)
              \/ TransportClose(t) \/ HandshakeTimeout(t))
            => UNCHANGED <<ws, isConnecting, connectionPromise, reconnectAttempts,
                           reconnectTimer, pingTimer>>]_vars

\* the reconnect timers that have been set and have neither fired nor been
\* cleared, with or without this.reconnectTimer pointing at them
PendingTimers == (IF reconnectTimer = "pending" THEN 1 ELSE 0) + orphanTimers

\* C27 (under Spec): at most one reconnect timer is pending, and none is
\* pending while a socket of the session is connecting or open, so that none
\* is left after a connect() of the application during the backoff wait has
\* succeeded.
C27_OneReconnectTimerWhileDown ==
  /\ PendingTimers <= 1
  /\ PendingTimers > 0 => LiveLinks = 0

\* C28 (under Spec): in every state the reconnect attempt counter is between
\* 0 and maxReconnectAttempts, both included.
C28_AttemptsWithinLimit ==
  reconnectAttempts \in 0..maxReconnectAttempts

\* C29 (under SpecHooks): the teardown of one hook instance leaves the
\* listener of the other instance in the registry, the room of the other
\* instance in the Room Set, and the link the other instance uses open.
C29_TeardownLeavesOtherConsumer ==
  [][\A c \in Consumers :
       HookDisconnect(c) =>
         \A d \in Consumers \ {c} :
           /\ Registered(eventListeners, "thread:new", ListenerOf(d)) =>
                Registered(eventListeners', "thread:new", ListenerOf(d))
           /\ WorkspaceRoom(d) \in Range(rooms) => WorkspaceRoom(d) \in Range(rooms')
           /\ (hooks[d].ref /\ WsOpen(ws)) => WsOpen(ws')]_vars

\* C30 (under SpecHooks): whenever a hook instance reports connected = true
\* and no step of a handler is due, isConnected() of the session is true.
C30_ConnectedFlagFollowsSession ==
  (Quiet /\ NoEventInProgress) =>
    \A c \in Consumers : hooks[c].connected => IsConnected

====
